---- MODULE Spec2Model ----
(***************************************************************************)
(* State-machine model of MySQLDriver (src/src/driver.ts): the streaming   *)
(* result protocol of findStream / findStreamSync and the statement        *)
(* assembly and execution of the other operations.                          *)
(*                                                                         *)
(* Text is modelled as a sequence of fragments (strings); concatenation of *)
(* JavaScript strings is concatenation of fragment sequences.  Identifier  *)
(* names are sequences of one-character fragments, and every placeholder   *)
(* "?" is a fragment of its own, as is every backtick (the fragment BQ).   *)
(*                                                                         *)
(* The collaborators are modelled by their contracts: the pool calls a     *)
(* query callback exactly once; the Readable emits no "data" while paused  *)
(* and no event at all once destroyed; a continuation after "await" runs   *)
(* as a microtask once the awaited promise has settled.  The row handler   *)
(* and insert's key callback are functions supplied by the caller.         *)
(***************************************************************************)
EXTENDS Integers, Sequences, FiniteSets, TLC

VARIABLES
    idConversion,   \* the active NameConversion policy (constructor)
    call,           \* the operation in progress, "none" before any call
    ret,            \* what the call returned: "none", "promise", "undefined"
    promise,        \* state of the returned promise
    settleCalls,    \* every resolve()/reject() call made by the code, in order
    log,            \* calls of this.debug and of pool.query, in order
    poolState,      \* the statement's progress in the pool, and the pool's answer
    keyCallbacks,   \* values passed to insert's generated-key callback
    insertReturns,  \* insert's local flag
    args,           \* the arguments of the call in progress
    stream,         \* the Readable returned by pool.query(...).stream()
    busyPromise,    \* findStream's local: 0 for null, else the invocation number
    invocations,    \* row-handler invocations, in order: [row, status]
    emitted,        \* rows the source has emitted through "data", in order
    waiters,        \* continuations awaiting a handler promise, in order
    microtasks      \* continuations ready to run, in order

vars == <<idConversion, call, ret, promise, settleCalls, log, poolState, keyCallbacks, insertReturns, args, stream, busyPromise,
          invocations, emitted, waiters, microtasks>>

streamVars == <<stream, busyPromise, invocations, emitted, waiters, microtasks>>
poolVars == <<poolState, keyCallbacks, insertReturns>>

(***************************************************************************)
(* Bounds of the model.                                                    *)
(***************************************************************************)
MaxRows == 3        \* rows one stream emits at most
MaxSourceErrors == 1 \* "error" events one stream emits at most

(***************************************************************************)
(* Generic helpers.                                                        *)
(***************************************************************************)
\* the backtick character that quotes an identifier
BQ == "[backtick]"

RECURSIVE Flatten(_)
Flatten(ss) == IF ss = <<>> THEN <<>> ELSE Head(ss) \o Flatten(Tail(ss))

RECURSIVE Join(_, _)
\* Array.prototype.join: the elements of ss (texts) separated by sep.
Join(ss, sep) ==
    IF ss = <<>> THEN <<>>
    ELSE IF Len(ss) = 1 THEN ss[1]
    ELSE ss[1] \o sep \o Join(Tail(ss), sep)

(***************************************************************************)
(* Identifier conversion (NameConversion).  toSnakeCase / toCamelCase are   *)
(* imported from ./utils; they follow the default casing transform of the  *)
(* specification (upper-case letter <-> underscore + lower-case letter).   *)
(***************************************************************************)
Lower(c) == CASE c = "A" -> "a" [] c = "B" -> "b" [] c = "N" -> "n" [] OTHER -> c
Upper(c) == CASE c = "a" -> "A" [] c = "b" -> "B" [] c = "n" -> "N" [] OTHER -> c

RECURSIVE toSnakeCase(_)
toSnakeCase(n) ==
    IF n = <<>> THEN <<>>
    ELSE IF Lower(Head(n)) # Head(n)
         THEN <<"_", Lower(Head(n))>> \o toSnakeCase(Tail(n))
         ELSE <<Head(n)>> \o toSnakeCase(Tail(n))

RECURSIVE CamelFrom(_, _)
CamelFrom(n, nextUpper) ==
    IF n = <<>> THEN <<>>
    ELSE IF Head(n) = "_" THEN CamelFrom(Tail(n), TRUE)
    ELSE <<IF nextUpper THEN Upper(Head(n)) ELSE Head(n)>> \o CamelFrom(Tail(n), FALSE)

toCamelCase(n) == CamelFrom(n, FALSE)

\* The caller-supplied policy of the model: a "c" prefix on the storage side.
customToSQL(n) == <<"c">> \o n
customToBean(n) == IF n # <<>> /\ Head(n) = "c" THEN Tail(n) ELSE n

Policies == {"default", "disabled", "custom"}

\* the toSQL function of a policy
policyToSQL(policy, n) ==
    CASE policy = "custom" -> customToSQL(n)
      [] policy = "disabled" -> n
      [] OTHER -> toSnakeCase(n)

\* this.idConversion.toSQL
toSQL(n) == policyToSQL(idConversion, n)

\* this.idConversion.toBean
toBean(n) ==
    CASE idConversion = "custom" -> customToBean(n)
      [] idConversion = "disabled" -> n
      [] OTHER -> toCamelCase(n)

\* A row is a sequence of fields [k |-> name, v |-> value] in key order.
ConvertRow(r) == [i \in 1..Len(r) |-> [k |-> toBean(r[i].k), v |-> r[i].v]]

\* this.idConversion.parseResults
parseResults(rows) == [i \in 1..Len(rows) |-> ConvertRow(rows[i])]

(***************************************************************************)
(* Values.  Every JavaScript value of the model is a record [t, s, items]: *)
(* t the type tag, s the text of a number or string, items the elements of *)
(* an array.                                                               *)
(***************************************************************************)
Num(s) == [t |-> "number", s |-> s, items |-> <<>>]
Str(s) == [t |-> "string", s |-> s, items |-> <<>>]
BigInt(s) == [t |-> "bigint", s |-> s, items |-> <<>>]
Null == [t |-> "null", s |-> "", items |-> <<>>]
Undefined == [t |-> "undefined", s |-> "", items |-> <<>>]
List(items) == [t |-> "list", s |-> "", items |-> items]

IsUnset(v) == v.t = "null" \/ v.t = "undefined"     \* v === null || v === undefined

\* toSQLCompatibleValue is imported from ./utils: big integers travel as decimal
\* text, every other scalar unchanged.
toSQLCompatibleValue(v) == IF v.t = "bigint" THEN Str(v.s) ELSE v

\* row[k]
RowGet(row, k) ==
    IF \E i \in 1..Len(row) : row[i].k = k
    THEN row[CHOOSE i \in 1..Len(row) : row[i].k = k].v
    ELSE Undefined

\* Object.keys(row)
ObjectKeys(row) == [i \in 1..Len(row) |-> row[i].k]

(***************************************************************************)
(* MySQL.format (mysql2 / sqlstring): every "?" of the text, from the      *)
(* left, is replaced by the escaped text of the next value while values    *)
(* remain.  Used for the debug sink only.                                  *)
(***************************************************************************)
EscapeScalar(v) ==
    CASE v.t = "number" -> <<v.s>>
      [] v.t = "string" -> <<"'", v.s, "'">>
      [] v.t = "bigint" -> <<v.s>>
      [] OTHER -> <<"NULL">>

\* an array of scalars
EscapeFlat(v) ==
    IF v.t = "list"
    THEN Join([i \in 1..Len(v.items) |-> EscapeScalar(v.items[i])], <<", ">>)
    ELSE EscapeScalar(v)

\* an array whose elements may be arrays: nested arrays become (a, b) groups
Escape(v) ==
    IF v.t = "list"
    THEN Join([i \in 1..Len(v.items) |->
                 IF v.items[i].t = "list"
                 THEN <<"(">> \o EscapeFlat(v.items[i]) \o <<")">>
                 ELSE EscapeScalar(v.items[i])], <<", ">>)
    ELSE EscapeScalar(v)

RECURSIVE format(_, _)
format(sql, values) ==
    IF sql = <<>> THEN <<>>
    ELSE IF Head(sql) = "?" /\ values # <<>>
         THEN Escape(Head(values)) \o format(Tail(sql), Tail(values))
         ELSE <<Head(sql)>> \o format(Tail(sql), values)

\* "[MYSQL] " + MySQL.format(sentence, values)
DebugText(sql, values) == <<"[MYSQL] ">> \o format(sql, values)

\* the number of placeholders of a text
RECURSIVE Placeholders(_)
Placeholders(sql) ==
    IF sql = <<>> THEN 0
    ELSE (IF Head(sql) = "?" THEN 1 ELSE 0) + Placeholders(Tail(sql))

\* the decimal text of an integer, as string concatenation renders it
DigitText(d) ==
    CASE d = 0 -> "0" [] d = 1 -> "1" [] d = 2 -> "2" [] d = 3 -> "3" [] d = 4 -> "4"
      [] d = 5 -> "5" [] d = 6 -> "6" [] d = 7 -> "7" [] d = 8 -> "8" [] OTHER -> "9"

RECURSIVE NatText(_)
NatText(n) == IF n < 10 THEN <<DigitText(n)>> ELSE NatText(n \div 10) \o <<DigitText(n % 10)>>

NumText(n) == IF n < 0 THEN <<"-">> \o NatText(0 - n) ELSE NatText(n)

(***************************************************************************)
(* filterToSQL is imported from ./filtering.  It follows section 4.2 of the *)
(* specification on the filters of the model: the empty filter, an         *)
(* equality leaf, a null check and a conjunction of leaves.                *)
(***************************************************************************)
NoFilter == [op |-> "none", key |-> <<>>, value |-> Null, children |-> <<>>]
EqFilter(k, v) == [op |-> "eq", key |-> k, value |-> v, children |-> <<>>]
NullFilter(k) == [op |-> "isnull", key |-> k, value |-> Null, children |-> <<>>]
AndFilter(cs) == [op |-> "and", key |-> <<>>, value |-> Null, children |-> cs]

\* conv names the policy whose toSQL is passed as nameToSQL
leafToSQL(f, conv) ==
    CASE f.op = "eq" ->
           [query |-> <<BQ>> \o policyToSQL(conv, f.key) \o <<BQ, " = ", "?">>, values |-> <<f.value>>]
      [] f.op = "isnull" ->
           [query |-> <<BQ>> \o policyToSQL(conv, f.key) \o <<BQ, " IS NULL">>, values |-> <<>>]
      [] OTHER -> [query |-> <<>>, values |-> <<>>]

filterToSQL(f, conv) ==
    IF f.op = "and"
    THEN [query |-> Join([i \in 1..Len(f.children) |-> leafToSQL(f.children[i], conv).query],
                         <<" AND ">>),
          values |-> Flatten([i \in 1..Len(f.children) |->
                                leafToSQL(f.children[i], conv).values])]
    ELSE leafToSQL(f, conv)

(***************************************************************************)
(* Statement assembly.  Every builder yields the pair the method hands to  *)
(* pool.query: [sql |-> text, values |-> positional values].               *)
(***************************************************************************)
\* "`" + n + "`"
Quoted(n) == <<BQ>> \o n \o <<BQ>>

\* a builder that writes WHERE whatever the compiled filter is
WithWhereAlways(st, cond1) ==
    [sql |-> st.sql \o <<" WHERE ">> \o cond1.query, values |-> st.values \o cond1.values]

\* the shared suffix: if (cond1.query.length > 0) { sentence += " WHERE " + ...; values.push(...) }
WithWhere(st, cond1) ==
    IF Len(cond1.query) > 0
    THEN [sql |-> st.sql \o <<" WHERE ">> \o cond1.query, values |-> st.values \o cond1.values]
    ELSE st

\* a findByKey that writes the key value into the text
findByKeySentenceInline(table, keyName, keyValue) ==
    [sql |-> <<"SELECT * FROM ">> \o Quoted(table) \o <<" WHERE ">>
               \o Quoted(toSQL(keyName)) \o <<" = ">> \o Escape(keyValue),
     values |-> <<>>]

findByKeySentence(table, keyName, keyValue) ==
    [sql |-> <<"SELECT * FROM ">> \o Quoted(table) \o <<" WHERE ">>
               \o Quoted(toSQL(keyName)) \o <<" = ", "?">>,
     values |-> <<keyValue>>]

\* a skip or limit argument: null, undefined or a number n
NullCount == [t |-> "null", n |-> 0]
AbsentCount == [t |-> "undefined", n |-> 0]
Count(n) == [t |-> "number", n |-> n]

\* a test that forgets the sign of the count
CountGivenUnsigned(c) == c.t = "number"

\* c !== null && c >= 0
CountGiven(c) == c.t = "number" /\ c.n >= 0

NoProjection == [given |-> FALSE, keys |-> <<>>]
Projection(ks) == [given |-> TRUE, keys |-> ks]

generateSelectSentence(table, filter, sortBy, sortDir, skip, limit, projection, extraOptions) ==
    LET s1 == <<"SELECT ">> \o
              (IF projection.given
               THEN Join([i \in 1..Len(projection.keys) |-> Quoted(toSQL(projection.keys[i]))],
                         <<", ">>)
               ELSE <<"*">>)
        s2 == s1 \o <<" FROM ">> \o Quoted(table)
        s3 == IF extraOptions.useIndex # <<>>
              THEN s2 \o <<" FORCE INDEX (">> \o Quoted(extraOptions.useIndex) \o <<")">>
              ELSE s2
        st4 == WithWhere([sql |-> s3, values |-> <<>>], filterToSQL(filter, idConversion))
        s5 == IF sortBy # <<>>
              THEN st4.sql \o <<" ORDER BY ">> \o Quoted(toSQL(sortBy)) \o <<" ">>
                       \o <<IF sortDir = "desc" THEN "DESC" ELSE "ASC">>
              ELSE st4.sql
        s6 == IF CountGiven(limit) THEN s5 \o <<" LIMIT ">> \o NumText(limit.n) ELSE s5
        s7 == IF CountGiven(skip) THEN s6 \o <<" OFFSET ">> \o NumText(skip.n) ELSE s6
    IN [sql |-> s7, values |-> st4.values]

countSentence(table, filter, extraOptions) ==
    LET s1 == <<"SELECT COUNT(", "*", ") AS ">> \o Quoted(<<"count">>) \o <<" FROM ">>
                  \o Quoted(table)
        s2 == IF extraOptions.useIndex # <<>>
              THEN s1 \o <<" FORCE INDEX (">> \o Quoted(extraOptions.useIndex) \o <<")">>
              ELSE s1
    IN WithWhere([sql |-> s2, values |-> <<>>], filterToSQL(filter, idConversion))

\* a loop that keeps the unset primary key among the columns
insertFieldsAll(row, key) == row

\* insert's loop: the fields that are not the unset primary key
insertFields(row, key) == SelectSeq(row, LAMBDA f : ~(key = f.k /\ IsUnset(f.v)))

\* key && (row[key] === null || row[key] === undefined)
insertAutoKey(row, key) == key # <<>> /\ IsUnset(RowGet(row, key))

insertSentence(table, row, key) ==
    LET kept == insertFields(row, key)
        sqlKeys == [i \in 1..Len(kept) |-> Quoted(toSQL(kept[i].k))]
        qm == [i \in 1..Len(kept) |-> <<"?">>]
        s1 == <<"INSERT INTO ">> \o Quoted(table) \o <<"(">> \o Join(sqlKeys, <<",">>)
                 \o <<") VALUES (">> \o Join(qm, <<",">>) \o <<")">>
    IN [sql |-> IF insertAutoKey(row, key)
                THEN s1 \o <<" RETURNING ">> \o Quoted(toSQL(key))
                ELSE s1,
        values |-> [i \in 1..Len(kept) |-> toSQLCompatibleValue(kept[i].v)]]

batchInsertSentence(table, rows) ==
    LET keys == ObjectKeys(rows[1])
        sqlKeys == [i \in 1..Len(keys) |-> Quoted(toSQL(keys[i]))]
        values == List([r \in 1..Len(rows) |->
                     List([i \in 1..Len(keys) |-> toSQLCompatibleValue(RowGet(rows[r], keys[i]))])])
    IN [sql |-> <<"INSERT INTO ">> \o Quoted(table) \o <<"(">> \o Join(sqlKeys, <<",">>)
                  \o <<") VALUES ", "?">>,
        values |-> <<values>>]

\* the SET list shared by update and updateMany
setList(table, updated) ==
    [sql |-> <<"UPDATE ">> \o Quoted(table) \o <<" SET ">>
               \o Join([i \in 1..Len(updated) |-> Quoted(toSQL(updated[i].k)) \o <<" = ", "?">>],
                       <<", ">>),
     values |-> [i \in 1..Len(updated) |-> toSQLCompatibleValue(updated[i].v)]]

updateSentence(table, keyName, keyValue, updated) ==
    LET st == setList(table, updated)
    IN [sql |-> st.sql \o <<" WHERE ">> \o Quoted(toSQL(keyName)) \o <<" = ", "?">>,
        values |-> Append(st.values, keyValue)]

updateManySentence(table, filter, updated) ==
    WithWhere(setList(table, updated), filterToSQL(filter, idConversion))

deleteSentence(table, keyName, keyValue) ==
    [sql |-> <<"DELETE FROM ">> \o Quoted(table) \o <<" WHERE ">>
               \o Quoted(toSQL(keyName)) \o <<" = ", "?">>,
     values |-> <<keyValue>>]

deleteManySentence(table, filter) ==
    WithWhere([sql |-> <<"DELETE FROM ">> \o Quoted(table), values |-> <<>>],
              filterToSQL(filter, idConversion))

sumSentence(table, filter, field) ==
    WithWhere([sql |-> <<"SELECT SUM(">> \o Quoted(toSQL(field)) \o <<") AS ">>
                         \o Quoted(toSQL(field)) \o <<" FROM ">> \o Quoted(table),
               values |-> <<>>],
              filterToSQL(filter, idConversion))

\* an increment that writes the property name as the caller gave it
incrementSentenceRawProp(table, keyName, keyValue, prop, inc) ==
    [sql |-> <<"UPDATE ">> \o Quoted(table) \o <<" SET ">> \o Quoted(prop) \o <<" = ">>
               \o Quoted(prop) \o <<" + ", "?", " WHERE ">> \o Quoted(toSQL(keyName))
               \o <<" = ", "?">>,
     values |-> <<inc, keyValue>>]

incrementSentence(table, keyName, keyValue, prop, inc) ==
    [sql |-> <<"UPDATE ">> \o Quoted(table) \o <<" SET ">> \o Quoted(toSQL(prop)) \o <<" = ">>
               \o Quoted(toSQL(prop)) \o <<" + ", "?", " WHERE ">> \o Quoted(toSQL(keyName))
               \o <<" = ", "?">>,
     values |-> <<inc, keyValue>>]

(***************************************************************************)
(* The inputs of the model.                                                *)
(***************************************************************************)
Tables == {<<"t">>}
FieldId == <<"i", "d">>
FieldUN == <<"u", "N">>
Names == {FieldId, FieldUN}
Scalars == {Num("1"), Str("x")}
IndexName == <<"i", "x">>

\* rows as the storage returns them (storage-side column names)
RawRows == {<<[k |-> <<"i", "d">>, v |-> Num("1")]>>,
            <<[k |-> <<"u", "_", "n">>, v |-> Str("x")], [k |-> <<"i", "d">>, v |-> Num("2")]>>}

Filters == {NoFilter, EqFilter(FieldUN, Str("x")),
            AndFilter(<<EqFilter(FieldId, Num("1")), NullFilter(FieldUN)>>)}

FindArgs ==
    [table : Tables, filter : Filters, sortBy : {<<>>, FieldUN}, sortDir : {"asc", "desc"},
     skip : {Count(-1), Count(0), Count(12), NullCount, AbsentCount},
     limit : {Count(-1), Count(0), Count(2), NullCount, AbsentCount},
     projection : {NoProjection, Projection(<<FieldId, FieldUN>>)},
     extraOptions : {[useIndex |-> <<>>], [useIndex |-> IndexName]}]

\* the find arguments the streaming operations are called with
StreamFindArgs ==
    {a \in FindArgs :
        \/ /\ a.filter = NoFilter /\ a.sortBy = <<>> /\ a.sortDir = "asc"
           /\ a.skip = Count(-1) /\ a.limit = Count(-1)
           /\ a.projection = NoProjection /\ a.extraOptions.useIndex = <<>>
        \/ /\ a.filter # NoFilter /\ a.filter.op = "eq" /\ a.sortBy = FieldUN
           /\ a.sortDir = "desc" /\ a.skip = Count(0) /\ a.limit = Count(2)
           /\ a.projection # NoProjection /\ a.extraOptions.useIndex = IndexName}

SelectOf(a) ==
    generateSelectSentence(a.table, a.filter, a.sortBy, a.sortDir, a.skip, a.limit,
                           a.projection, a.extraOptions)

(***************************************************************************)
(* Promises, errors and the event log.                                     *)
(***************************************************************************)
Error(kind, n) == [t |-> "error", s |-> kind, items |-> <<Num(DigitText(n))>>]
HandlerError(k) == Error("handler", k)       \* what the k-th handler invocation fails with
SourceError == Error("source", 0)            \* what the stream's "error" event carries
PoolErrors == {Error("pool", 1), Error("pool", 2)}
NoError == Null

NoPromise == [state |-> "none", value |-> Undefined]
PendingPromise == [state |-> "pending", value |-> Undefined]

\* resolve(v) / reject(e) of a promise: only the first call settles it
Settle(p, state, v) == IF p.state = "pending" THEN [state |-> state, value |-> v] ELSE p

SettleCall(kind, v) == [kind |-> kind, value |-> v]

DebugEvent(text) == [ev |-> "debug", sql |-> text, values |-> <<>>]
QueryEvent(st) == [ev |-> "query", sql |-> st.sql, values |-> st.values]

\* this.debug("[MYSQL] " + MySQL.format(sentence, values)) followed by pool.query(sentence, values)
DebugThenQuery(st) == <<DebugEvent(DebugText(st.sql, st.values)), QueryEvent(st)>>

Queries == SelectSeq(log, LAMBDA e : e.ev = "query")

(***************************************************************************)
(* The row stream: a Readable in flowing mode.  It emits "data" only while *)
(* it is neither paused nor destroyed, "end" at most once and nothing      *)
(* after it was destroyed; "end" and "error" may arrive while it is        *)
(* paused.                                                                 *)
(***************************************************************************)
\* endPending records what "end" found: the invocation still pending then, or 0
NoStream == [open |-> FALSE, paused |-> FALSE, destroyed |-> FALSE, ended |-> FALSE,
             errors |-> 0, endPending |-> 0]
NewStream == [NoStream EXCEPT !.open = TRUE]

\* a data handler that forgets stream.pause()
StreamPauseForgotten(s) == s
StreamPause(s) == [s EXCEPT !.paused = TRUE]          \* stream.pause()
StreamResume(s) == [s EXCEPT !.paused = FALSE]        \* stream.resume()
\* a destroy() that leaves the stream running
StreamDestroyIgnored(s) == s
StreamDestroy(s) == [s EXCEPT !.destroyed = TRUE]     \* stream.destroy()

CanEmitData == stream.open /\ ~stream.paused /\ ~stream.destroyed /\ ~stream.ended
CanEmitEnd == stream.open /\ ~stream.destroyed /\ ~stream.ended
CanEmitError == stream.open /\ ~stream.destroyed /\ ~stream.ended

\* the raw row handed on without parseResults
eachArgumentUnconverted(row) == row

\* the argument of each(...): this.idConversion.parseResults([row])[0]
eachArgument(row) == parseResults(<<row>>)[1]

Invocation(row, status) == [row |-> eachArgument(row), status |-> status]

Pending == {k \in 1..Len(invocations) : invocations[k].status = "pending"}
Failed == {k \in 1..Len(invocations) : invocations[k].status \in {"failed", "threw"}}

\* a catch block that rejects but leaves the stream alive
CatchWithoutDestroy(s) == s

\* the catch block of the data handlers: stream.destroy(); reject(ex)
CatchHandlerFailure(s) == StreamDestroy(s)

\* an end handler that resolves without looking at busyPromise
endNeverWaits(bp) == FALSE

\* the end handler's test: if (busyPromise)
endMustWait(bp) == bp # 0

(***************************************************************************)
(* The pool.  pool.query(sql, values, callback) calls back once, with an   *)
(* error or with results: a list of rows for a statement that returns      *)
(* rows, a header with affectedRows for one that does not.                 *)
(***************************************************************************)
Rows(rs) == [kind |-> "rows", rows |-> rs, affectedRows |-> 0]
Header(n) == [kind |-> "header", rows |-> <<>>, affectedRows |-> n]
NoResults == [kind |-> "none", rows |-> <<>>, affectedRows |-> 0]

PoolIdle == [phase |-> "idle", error |-> NoError, results |-> NoResults]
PoolWaiting == [phase |-> "waiting", error |-> NoError, results |-> NoResults]
PoolAnswered(error, results) == [phase |-> "answered", error |-> error, results |-> results]

\* what the pool may answer: (error, results) pairs
Answers(resultSet) ==
    {[error |-> e, results |-> NoResults] : e \in PoolErrors}
        \cup {[error |-> NoError, results |-> r] : r \in resultSet}

RowLists == {Rows(<<>>)} \cup {Rows(<<r>>) : r \in RawRows}
                \cup {Rows(<<r1, r2>>) : r1 \in RawRows, r2 \in RawRows}
Headers == {Header(0), Header(1), Header(2)}
CountRows == {Rows(<<>>)} \cup {Rows(<<<<[k |-> <<"count">>, v |-> n]>>>>) : n \in {Num("0"), Num("3")}}
SumRows(column) ==
    {Rows(<<>>)} \cup {Rows(<<<<[k |-> column, v |-> x]>>>>) :
                          x \in {Null, Num("5"), Str("12.5"), Str("0")}}
KeyRows(column) == {Rows(<<>>), Rows(<<<<[k |-> column, v |-> Num("7")]>>>>)}

\* values a promise is resolved with
RowValue(row) == [t |-> "row", s |-> "", items |-> row]
RowsValue(rows) == List([i \in 1..Len(rows) |-> RowValue(rows[i])])
Bool(b) == [t |-> "boolean", s |-> IF b THEN "true" ELSE "false", items |-> <<>>]
ResultsValue(r) ==
    IF r.kind = "rows" THEN RowsValue(r.rows)
    ELSE [t |-> "header", s |-> DigitText(r.affectedRows), items |-> <<>>]

\* a result passed on without its default
OrZeroForgotten(v) == v

\* x || 0
OrZero(v) ==
    IF IsUnset(v) \/ v.t = "nan" \/ (v.t = "number" /\ v.s = "0") \/ (v.t = "string" /\ v.s = "")
    THEN Num("0") ELSE v

NaN == [t |-> "nan", s |-> "", items |-> <<>>]

\* parseInt(v, 10) on the values of the model
parseInt(v) ==
    CASE v.t \in {"number", "string"} /\ v.s = "5" -> Num("5")
      [] v.t \in {"number", "string"} /\ v.s = "12.5" -> Num("12")
      [] v.t \in {"number", "string"} /\ v.s = "0" -> Num("0")
      [] v.t \in {"number", "string"} /\ v.s = "7" -> Num("7")
      [] OTHER -> NaN

\* the head of every method that submits a statement: the promise is created and
\* pool.query(sentence, values, callback) is called
Submit(name, a, events) ==
    /\ call = "none"
    /\ call' = name
    /\ ret' = "promise"
    /\ promise' = PendingPromise
    /\ args' = a
    /\ log' = log \o events
    /\ poolState' = PoolWaiting
    /\ UNCHANGED <<idConversion, settleCalls, keyCallbacks, streamVars>>

\* the early "return;" of batchInsert, update and updateMany
ReturnNothing(name, a) ==
    /\ call = "none"
    /\ call' = name
    /\ ret' = "undefined"
    /\ args' = a
    /\ UNCHANGED <<idConversion, promise, settleCalls, log, poolVars, streamVars>>

\* a callback whose "return" before reject(error) is missing
QueryCallbackFallsThrough(error, value) ==
    IF error # NoError
    THEN /\ promise' = Settle(Settle(promise, "rejected", error), "resolved", value)
         /\ settleCalls' = settleCalls \o <<SettleCall("reject", error), SettleCall("resolve", value)>>
    ELSE /\ promise' = Settle(promise, "resolved", value)
         /\ settleCalls' = Append(settleCalls, SettleCall("resolve", value))

\* the body shared by every pool callback:
\*     if (error) { return reject(error); } ... resolve(value);
QueryCallback(error, value) ==
    IF error # NoError
    THEN /\ promise' = Settle(promise, "rejected", error)
         /\ settleCalls' = Append(settleCalls, SettleCall("reject", error))
    ELSE /\ promise' = Settle(promise, "resolved", value)
         /\ settleCalls' = Append(settleCalls, SettleCall("resolve", value))

\* the pool calls the callback of the statement in flight
Answered(name, ans) ==
    /\ call = name
    /\ poolState.phase = "waiting"
    /\ poolState' = PoolAnswered(ans.error, ans.results)
    /\ UNCHANGED <<idConversion, call, ret, log, args, insertReturns, streamVars>>

(***************************************************************************)
(* Construction.                                                           *)
(***************************************************************************)
Init ==
    /\ idConversion \in Policies
    /\ call = "none"
    /\ ret = "none"
    /\ promise = NoPromise
    /\ settleCalls = <<>>
    /\ log = <<>>
    /\ poolState = PoolIdle
    /\ keyCallbacks = <<>>
    /\ insertReturns = FALSE
    /\ args = [table |-> <<>>]
    /\ stream = NoStream
    /\ busyPromise = 0
    /\ invocations = <<>>
    /\ emitted = <<>>
    /\ waiters = <<>>
    /\ microtasks = <<>>

(***************************************************************************)
(* findStream: the asynchronous row handler.                               *)
(***************************************************************************)
findStream(a) ==
    /\ call = "none"
    /\ call' = "findStream"
    /\ ret' = "promise"
    /\ promise' = PendingPromise
    /\ args' = a
    /\ log' = log \o DebugThenQuery(SelectOf(a))
    /\ stream' = NewStream
    /\ busyPromise' = 0
    /\ UNCHANGED <<idConversion, settleCalls, poolVars, invocations, emitted, waiters,
                   microtasks>>

\* stream.on("data", async function (row) {...}) up to its await (or through its
\* catch block when each throws synchronously)
findStreamData(row, outcome) ==
    /\ call = "findStream"
    /\ CanEmitData
    /\ Len(emitted) < MaxRows
    /\ emitted' = Append(emitted, row)
    /\ LET k == Len(invocations) + 1 IN
       IF outcome = "threw"
       THEN /\ invocations' = Append(invocations, Invocation(row, "threw"))
            /\ stream' = StreamResume(CatchHandlerFailure(StreamPause(stream)))
            /\ promise' = Settle(promise, "rejected", HandlerError(k))
            /\ settleCalls' = Append(settleCalls, SettleCall("reject", HandlerError(k)))
            /\ busyPromise' = 0
            /\ UNCHANGED waiters
       ELSE /\ invocations' = Append(invocations, Invocation(row, "pending"))
            /\ stream' = StreamPause(stream)
            /\ busyPromise' = k
            /\ waiters' = Append(waiters, [kind |-> "data", k |-> k])
            /\ UNCHANGED <<promise, settleCalls>>
    /\ UNCHANGED <<idConversion, call, ret, args, log, poolVars, microtasks>>

\* the promise returned by the k-th invocation of each settles: the continuations
\* awaiting it become microtasks, in the order they started to wait
handlerSettles(k, status) ==
    /\ k \in Pending
    /\ invocations' = [invocations EXCEPT ![k].status = status]
    /\ microtasks' = microtasks \o SelectSeq(waiters, LAMBDA w : w.k = k)
    /\ waiters' = SelectSeq(waiters, LAMBDA w : w.k # k)
    /\ UNCHANGED <<idConversion, call, ret, promise, settleCalls, log, poolVars, args, stream,
                   busyPromise, emitted>>

\* the data handler after "await busyPromise"
findStreamDataResumes ==
    /\ microtasks # <<>>
    /\ Head(microtasks).kind = "data"
    /\ microtasks' = Tail(microtasks)
    /\ LET k == Head(microtasks).k IN
       IF invocations[k].status = "failed"
       THEN /\ stream' = StreamResume(CatchHandlerFailure(stream))
            /\ promise' = Settle(promise, "rejected", HandlerError(k))
            /\ settleCalls' = Append(settleCalls, SettleCall("reject", HandlerError(k)))
       ELSE /\ stream' = StreamResume(stream)
            /\ UNCHANGED <<promise, settleCalls>>
    /\ busyPromise' = 0
    /\ UNCHANGED <<idConversion, call, ret, log, poolVars, args, invocations, emitted, waiters>>

\* stream.on("end", async function () {...}) up to its await, or to resolve()
findStreamEnd ==
    /\ call = "findStream"
    /\ CanEmitEnd
    /\ stream' = [stream EXCEPT !.ended = TRUE,
                                !.endPending = IF busyPromise \in Pending THEN busyPromise ELSE 0]
    /\ IF endMustWait(busyPromise)
       THEN /\ IF busyPromise \in Pending
               THEN /\ waiters' = Append(waiters, [kind |-> "end", k |-> busyPromise])
                    /\ UNCHANGED microtasks
               ELSE /\ microtasks' = Append(microtasks, [kind |-> "end", k |-> busyPromise])
                    /\ UNCHANGED waiters
            /\ UNCHANGED <<promise, settleCalls>>
       ELSE /\ promise' = Settle(promise, "resolved", Undefined)
            /\ settleCalls' = Append(settleCalls, SettleCall("resolve", Undefined))
            /\ UNCHANGED <<waiters, microtasks>>
    /\ UNCHANGED <<idConversion, call, ret, log, poolVars, args, busyPromise, invocations,
                   emitted>>

\* the end handler after "await busyPromise"
findStreamEndResumes ==
    /\ microtasks # <<>>
    /\ Head(microtasks).kind = "end"
    /\ microtasks' = Tail(microtasks)
    /\ LET k == Head(microtasks).k IN
       IF invocations[k].status = "failed"
       THEN /\ promise' = Settle(promise, "rejected", HandlerError(k))
            /\ settleCalls' = Append(settleCalls, SettleCall("reject", HandlerError(k)))
       ELSE /\ promise' = Settle(promise, "resolved", Undefined)
            /\ settleCalls' = Append(settleCalls, SettleCall("resolve", Undefined))
    /\ UNCHANGED <<idConversion, call, ret, log, poolVars, args, stream, busyPromise,
                   invocations, emitted, waiters>>

\* this.debug("[MYSQL] [ERROR] " + err.message + "\n" + err.stack)
ErrorText == <<"[MYSQL] [ERROR] ", "source">>

\* stream.on("error", function (err) {...}) of findStream and of findStreamSync
streamError ==
    /\ call \in {"findStream", "findStreamSync"}
    /\ CanEmitError
    /\ stream.errors < MaxSourceErrors
    /\ stream' = [stream EXCEPT !.errors = @ + 1]
    /\ log' = Append(log, DebugEvent(ErrorText))
    /\ UNCHANGED <<idConversion, call, ret, promise, settleCalls, poolVars, args, busyPromise,
                   invocations, emitted, waiters, microtasks>>

(***************************************************************************)
(* findStreamSync: the synchronous row handler.                            *)
(***************************************************************************)
findStreamSync(a) ==
    /\ call = "none"
    /\ call' = "findStreamSync"
    /\ ret' = "promise"
    /\ promise' = PendingPromise
    /\ args' = a
    /\ log' = log \o DebugThenQuery(SelectOf(a))
    /\ stream' = NewStream
    /\ UNCHANGED <<idConversion, settleCalls, poolVars, busyPromise, invocations, emitted,
                   waiters, microtasks>>

findStreamSyncData(row, outcome) ==
    /\ call = "findStreamSync"
    /\ CanEmitData
    /\ Len(emitted) < MaxRows
    /\ emitted' = Append(emitted, row)
    /\ LET k == Len(invocations) + 1 IN
       IF outcome = "threw"
       THEN /\ invocations' = Append(invocations, Invocation(row, "threw"))
            /\ stream' = CatchHandlerFailure(stream)
            /\ promise' = Settle(promise, "rejected", HandlerError(k))
            /\ settleCalls' = Append(settleCalls, SettleCall("reject", HandlerError(k)))
       ELSE /\ invocations' = Append(invocations, Invocation(row, "ok"))
            /\ UNCHANGED <<stream, promise, settleCalls>>
    /\ UNCHANGED <<idConversion, call, ret, args, log, poolVars, busyPromise, waiters,
                   microtasks>>

findStreamSyncEnd ==
    /\ call = "findStreamSync"
    /\ CanEmitEnd
    /\ stream' = [stream EXCEPT !.ended = TRUE]
    /\ promise' = Settle(promise, "resolved", Undefined)
    /\ settleCalls' = Append(settleCalls, SettleCall("resolve", Undefined))
    /\ UNCHANGED <<idConversion, call, ret, log, poolVars, args, busyPromise, invocations,
                   emitted, waiters, microtasks>>

StreamNext ==
    \/ \E a \in StreamFindArgs : findStream(a)
    \/ \E row \in RawRows, outcome \in {"threw", "promise"} : findStreamData(row, outcome)
    \/ \E k \in 1..MaxRows, status \in {"ok", "failed"} : handlerSettles(k, status)
    \/ findStreamDataResumes
    \/ findStreamEnd
    \/ findStreamEndResumes
    \/ streamError
    \/ \E a \in StreamFindArgs : findStreamSync(a)
    \/ \E row \in RawRows, outcome \in {"threw", "returned"} : findStreamSyncData(row, outcome)
    \/ findStreamSyncEnd

(***************************************************************************)
(* The operations that submit one statement and await one answer.          *)
(***************************************************************************)
CustomQueries == {[sql |-> <<"SELECT 1">>, values |-> <<>>],
                  [sql |-> <<"SELECT ", "?">>, values |-> <<Num("1")>>]}

customQuery(q) ==
    /\ Submit("customQuery", q, <<QueryEvent(q)>>)
    /\ UNCHANGED insertReturns

customQueryCallback(ans) ==
    /\ Answered("customQuery", ans)
    /\ QueryCallback(ans.error,
                     [t |-> "object", s |-> "", items |-> <<ResultsValue(ans.results)>>])
    /\ UNCHANGED keyCallbacks

findByKey(table, keyName, keyValue) ==
    /\ Submit("findByKey", [table |-> table, keyName |-> keyName, keyValue |-> keyValue],
              DebugThenQuery(findByKeySentence(table, keyName, keyValue)))
    /\ UNCHANGED insertReturns

findByKeyCallback(ans) ==
    /\ Answered("findByKey", ans)
    /\ QueryCallback(ans.error,
                     IF Len(ans.results.rows) > 0
                     THEN RowValue(parseResults(ans.results.rows)[1])
                     ELSE Null)
    /\ UNCHANGED keyCallbacks

find(a) ==
    /\ Submit("find", a, DebugThenQuery(SelectOf(a)))
    /\ UNCHANGED insertReturns

findCallback(ans) ==
    /\ Answered("find", ans)
    /\ QueryCallback(ans.error,
                     IF ans.results.kind # "none"
                     THEN RowsValue(parseResults(ans.results.rows))
                     ELSE List(<<>>))
    /\ UNCHANGED keyCallbacks

count(table, filter, extraOptions) ==
    /\ Submit("count", [table |-> table, filter |-> filter, extraOptions |-> extraOptions],
              DebugThenQuery(countSentence(table, filter, extraOptions)))
    /\ UNCHANGED insertReturns

countCallback(ans) ==
    /\ Answered("count", ans)
    /\ QueryCallback(ans.error,
                     IF Len(ans.results.rows) > 0
                     THEN OrZero(RowGet(ans.results.rows[1], <<"count">>))
                     ELSE Num("0"))
    /\ UNCHANGED keyCallbacks

insert(table, row, key) ==
    /\ Submit("insert", [table |-> table, row |-> row, key |-> key],
              DebugThenQuery(insertSentence(table, row, key)))
    /\ insertReturns' = insertAutoKey(row, key)

\* if (insertReturns) { if (results && results.length > 0) { callback(results[0][toSQL(key)]); } }
insertKeyCallbacks(results) ==
    IF insertReturns /\ Len(results.rows) > 0
    THEN <<RowGet(results.rows[1], toSQL(args.key))>>
    ELSE <<>>

insertCallback ==
    /\ call = "insert"
    /\ \E ans \in Answers(IF insertReturns THEN KeyRows(toSQL(args.key)) ELSE Headers) :
        /\ Answered("insert", ans)
        /\ keyCallbacks' = IF ans.error # NoError THEN keyCallbacks
                           ELSE keyCallbacks \o insertKeyCallbacks(ans.results)
        /\ QueryCallback(ans.error, Undefined)

batchInsert(table, rows) ==
    /\ IF Len(rows) = 0
       THEN ReturnNothing("batchInsert", [table |-> table, rows |-> rows])
       ELSE /\ Submit("batchInsert", [table |-> table, rows |-> rows],
                      DebugThenQuery(batchInsertSentence(table, rows)))
            /\ UNCHANGED insertReturns

batchInsertCallback(ans) ==
    /\ Answered("batchInsert", ans)
    /\ QueryCallback(ans.error, Undefined)
    /\ UNCHANGED keyCallbacks

update(table, keyName, keyValue, updated) ==
    LET a == [table |-> table, keyName |-> keyName, keyValue |-> keyValue,
              updated |-> updated]
    IN IF Len(ObjectKeys(updated)) = 0
       THEN ReturnNothing("update", a)
       ELSE /\ Submit("update", a,
                      DebugThenQuery(updateSentence(table, keyName, keyValue, updated)))
            /\ UNCHANGED insertReturns

updateCallback(ans) ==
    /\ Answered("update", ans)
    /\ QueryCallback(ans.error, Undefined)
    /\ UNCHANGED keyCallbacks

updateMany(table, filter, updated) ==
    LET a == [table |-> table, filter |-> filter, updated |-> updated]
    IN IF Len(ObjectKeys(updated)) = 0
       THEN ReturnNothing("updateMany", a)
       ELSE /\ Submit("updateMany", a,
                      DebugThenQuery(updateManySentence(table, filter, updated)))
            /\ UNCHANGED insertReturns

updateManyCallback(ans) ==
    /\ Answered("updateMany", ans)
    /\ QueryCallback(ans.error, Num(DigitText(ans.results.affectedRows)))
    /\ UNCHANGED keyCallbacks

delete(table, keyName, keyValue) ==
    /\ Submit("delete", [table |-> table, keyName |-> keyName, keyValue |-> keyValue],
              DebugThenQuery(deleteSentence(table, keyName, keyValue)))
    /\ UNCHANGED insertReturns

deleteCallback(ans) ==
    /\ Answered("delete", ans)
    /\ QueryCallback(ans.error, Bool(ans.results.affectedRows # 0))
    /\ UNCHANGED keyCallbacks

deleteMany(table, filter) ==
    /\ Submit("deleteMany", [table |-> table, filter |-> filter],
              DebugThenQuery(deleteManySentence(table, filter)))
    /\ UNCHANGED insertReturns

deleteManyCallback(ans) ==
    /\ Answered("deleteMany", ans)
    /\ QueryCallback(ans.error, Num(DigitText(ans.results.affectedRows)))
    /\ UNCHANGED keyCallbacks

sum(table, filter, id, field) ==
    /\ Submit("sum", [table |-> table, filter |-> filter, id |-> id, field |-> field],
              DebugThenQuery(sumSentence(table, filter, field)))
    /\ UNCHANGED insertReturns

sumCallback ==
    /\ call = "sum"
    /\ \E ans \in Answers(SumRows(toSQL(args.field))) :
        /\ Answered("sum", ans)
        /\ QueryCallback(ans.error,
                         LET normalized == parseResults(ans.results.rows)
                         IN IF Len(normalized) > 0
                            THEN OrZero(parseInt(RowGet(normalized[1], args.field)))
                            ELSE Num("0"))
        /\ UNCHANGED keyCallbacks

increment(table, keyName, keyValue, prop, inc) ==
    /\ Submit("increment", [table |-> table, keyName |-> keyName, keyValue |-> keyValue,
                            prop |-> prop, inc |-> inc],
              DebugThenQuery(incrementSentence(table, keyName, keyValue, prop, inc)))
    /\ UNCHANGED insertReturns

incrementCallback(ans) ==
    /\ Answered("increment", ans)
    /\ QueryCallback(ans.error, Undefined)
    /\ UNCHANGED keyCallbacks

\* rows and payloads the callers pass
InsertRows == {<<[k |-> FieldId, v |-> Null], [k |-> FieldUN, v |-> Str("x")]>>,
               <<[k |-> FieldUN, v |-> BigInt("9")], [k |-> FieldId, v |-> Undefined]>>,
               <<[k |-> FieldId, v |-> Num("1")], [k |-> FieldUN, v |-> Str("x")]>>,
               <<[k |-> FieldUN, v |-> Str("x")]>>}
FullRows == {<<[k |-> FieldId, v |-> Num("1")], [k |-> FieldUN, v |-> Str("x")]>>,
             <<[k |-> FieldId, v |-> BigInt("9")], [k |-> FieldUN, v |-> Null]>>}
BatchRows == {<<>>} \cup {<<r>> : r \in FullRows} \cup {<<r1, r2>> : r1 \in FullRows, r2 \in FullRows}
Payloads == {<<>>, <<[k |-> FieldUN, v |-> Str("x")]>>,
             <<[k |-> FieldUN, v |-> BigInt("9")], [k |-> FieldId, v |-> Num("1")]>>}
UseIndex == {[useIndex |-> <<>>], [useIndex |-> IndexName]}

OpsNext ==
    \/ \E q \in CustomQueries : customQuery(q)
    \/ \E ans \in Answers(RowLists \cup Headers) : customQueryCallback(ans)
    \/ \E t \in Tables, k \in Names, v \in Scalars : findByKey(t, k, v)
    \/ \E ans \in Answers(RowLists) : findByKeyCallback(ans)
    \/ \E a \in FindArgs : find(a)
    \/ \E ans \in Answers(RowLists) : findCallback(ans)
    \/ \E t \in Tables, f \in Filters, x \in UseIndex : count(t, f, x)
    \/ \E ans \in Answers(CountRows) : countCallback(ans)
    \/ \E t \in Tables, r \in InsertRows, k \in Names \cup {<<>>} : insert(t, r, k)
    \/ insertCallback
    \/ \E t \in Tables, rs \in BatchRows : batchInsert(t, rs)
    \/ \E ans \in Answers(Headers) : batchInsertCallback(ans)
    \/ \E t \in Tables, k \in Names, v \in Scalars, u \in Payloads : update(t, k, v, u)
    \/ \E ans \in Answers(Headers) : updateCallback(ans)
    \/ \E t \in Tables, f \in Filters, u \in Payloads : updateMany(t, f, u)
    \/ \E ans \in Answers(Headers) : updateManyCallback(ans)
    \/ \E t \in Tables, k \in Names, v \in Scalars : delete(t, k, v)
    \/ \E ans \in Answers(Headers) : deleteCallback(ans)
    \/ \E t \in Tables, f \in Filters : deleteMany(t, f)
    \/ \E ans \in Answers(Headers) : deleteManyCallback(ans)
    \/ \E t \in Tables, f \in Filters, k \in Names : sum(t, f, FieldId, k)
    \/ sumCallback
    \/ \E t \in Tables, k \in Names, v \in Scalars, pr \in Names :
          increment(t, k, v, pr, Num("1"))
    \/ \E ans \in Answers(Headers) : incrementCallback(ans)

Next == StreamNext \/ OpsNext

Spec == Init /\ [][Next]_vars


(***************************************************************************)
(* Properties of the row stream.                                           *)
(***************************************************************************)
\* continuations of the data handler / of the end handler that have not run yet
DataWaiting(k) ==
    \E i \in 1..Len(waiters \o microtasks) :
        (waiters \o microtasks)[i] = [kind |-> "data", k |-> k]
EndWaiting(k) ==
    \E i \in 1..Len(waiters \o microtasks) :
        (waiters \o microtasks)[i] = [kind |-> "end", k |-> k]

RejectedWith(e) == promise = [state |-> "rejected", value |-> e]
Resolved == promise.state = "resolved"

\* C1: in findStream at most one invocation of the row handler is pending at any
\* time, and the source stays paused while an invocation is pending, so that no
\* invocation starts while an earlier one has not settled.
C1_AtMostOnePending ==
    call = "findStream" =>
        /\ Cardinality(Pending) <= 1
        /\ Pending # {} => stream.paused /\ Pending = {Len(invocations)}

C1_Witness ==
    /\ call = "findStream"
    /\ Len(invocations) = 3
    /\ invocations[1].status = "ok"
    /\ invocations[2].status = "ok"
    /\ invocations[3].status = "pending"

\* C2: in findStream the k-th invocation of the row handler receives the k-th row
\* the source emitted (converted by parseResults); every emitted row is handed to
\* the handler exactly once, none skipped, duplicated or reordered.
C2_RowsInOrder ==
    call = "findStream" =>
        /\ Len(invocations) = Len(emitted)
        /\ \A k \in 1..Len(emitted) : invocations[k].row = parseResults(<<emitted[k]>>)[1]

C2_Witness ==
    /\ call = "findStream"
    /\ idConversion = "default"
    /\ Len(emitted) = 3
    /\ emitted[1] # emitted[2]
    /\ emitted[2] # emitted[3]
    /\ invocations[2].row # emitted[2]
    /\ promise.state = "resolved"

\* C3: in findStream, once the invocation for a row has failed (thrown, or its
\* promise rejected) no later row reaches the handler, and as soon as the data
\* handler has seen the failure the source is destroyed and the returned promise is
\* rejected with that same failure.
C3_HandlerFailure ==
    call = "findStream" =>
        \A k \in Failed :
            /\ k = Len(invocations)
            /\ ~DataWaiting(k) => stream.destroyed /\ RejectedWith(HandlerError(k))

C3_Witness ==
    /\ call = "findStream"
    /\ Len(invocations) = 2
    /\ invocations[2].status = "failed"
    /\ ~DataWaiting(2)
    /\ stream.destroyed
    /\ RejectedWith(HandlerError(2))

\* C4 (as claimed): once the source has emitted "error" and nothing is pending any
\* more (no handler invocation, no continuation), the returned promise has settled
\* as a failure carrying the source's error (unless a handler failure came first).
C4_SourceErrorRejects ==
    (/\ call \in {"findStream", "findStreamSync"}
     /\ stream.errors > 0
     /\ Pending = {} /\ Failed = {}
     /\ waiters = <<>> /\ microtasks = <<>>)
        => RejectedWith(SourceError)

\* C5: in findStream, when "end" arrives while an invocation is pending, the returned
\* promise stays pending as long as that invocation is; once the invocation and the
\* handlers awaiting it are through, the promise is resolved if the invocation
\* succeeded and rejected with the handler's failure if it failed.
C5_EndWaitsForHandler ==
    (call = "findStream" /\ stream.endPending # 0) =>
        LET k == stream.endPending IN
        /\ invocations[k].status = "pending" => promise.state = "pending"
        /\ (~DataWaiting(k) /\ ~EndWaiting(k)) =>
              /\ invocations[k].status = "ok" => Resolved
              /\ invocations[k].status = "failed" => RejectedWith(HandlerError(k))

C5_Witness ==
    /\ call = "findStream"
    /\ stream.endPending = 2
    /\ invocations[2].status = "failed"
    /\ ~DataWaiting(2) /\ ~EndWaiting(2)
    /\ RejectedWith(HandlerError(2))

\* C6: in findStreamSync the handler is invoked once per emitted row in arrival
\* order; when an invocation throws, the source is destroyed, no later row reaches
\* the handler and the promise is rejected with the exception; when none threw and
\* the source has ended, the promise is resolved.
C6_SyncStream ==
    call = "findStreamSync" =>
        /\ Len(invocations) = Len(emitted)
        /\ \A k \in 1..Len(emitted) : invocations[k].row = parseResults(<<emitted[k]>>)[1]
        /\ \A k \in Failed :
              k = Len(invocations) /\ stream.destroyed /\ RejectedWith(HandlerError(k))
        /\ (Failed = {} /\ stream.ended) => Resolved

C6_Witness ==
    /\ call = "findStreamSync"
    /\ Len(invocations) = 3
    /\ invocations[2].status = "ok"
    /\ invocations[3].status = "threw"
    /\ RejectedWith(HandlerError(3))

(***************************************************************************)
(* Properties of the statement operations.                                 *)
(***************************************************************************)
\* sub occurs in text as a run of consecutive fragments
Contains(text, sub) ==
    \E i \in 1..(Len(text) - Len(sub) + 1) : SubSeq(text, i, i + Len(sub) - 1) = sub

\* the column list of an INSERT: the text before ") VALUES ("
ColumnList(sql) ==
    SubSeq(sql, 1, (CHOOSE i \in 1..Len(sql) : sql[i] = ") VALUES (") - 1)

SucceededWith(r) == poolState.phase = "answered" /\ poolState.error = NoError /\ r
KeyUnset == IsUnset(RowGet(args.row, args.key))
KeyInRow == \E i \in 1..Len(args.row) : args.row[i].k = args.key

\* C7 (as claimed): whenever an insert whose primary-key field is unset has
\* succeeded, the generated-key callback has been invoked exactly once.
C7_CallbackOnEverySuccess ==
    (call = "insert" /\ args.key # <<>> /\ KeyUnset /\ SucceededWith(TRUE))
        => Len(keyCallbacks) = 1

\* C7 (amended): for insert with a primary key named: if the key field of the row is
\* unset, the field is left out of the column list and of the value list, the
\* statement asks for the generated key, and the callback is invoked exactly once,
\* with the returned key, when the statement succeeds with a non-empty result and
\* not at all otherwise; if the key field is set, the field is in the column list,
\* no generated key is asked for and the callback is never invoked.
C7_InsertKey ==
    (call = "insert" /\ args.key # <<>>) =>
        LET st == Queries[1]
            keyCol == Quoted(toSQL(args.key))
        IN /\ Placeholders(st.sql) = Len(st.values)
           /\ KeyUnset =>
                /\ ~Contains(ColumnList(st.sql), keyCol)
                /\ Len(st.values) = Len(args.row) - (IF KeyInRow THEN 1 ELSE 0)
                /\ Contains(st.sql, <<" RETURNING ">> \o keyCol)
                /\ IF SucceededWith(Len(poolState.results.rows) > 0)
                   THEN keyCallbacks = <<RowGet(poolState.results.rows[1], toSQL(args.key))>>
                   ELSE keyCallbacks = <<>>
           /\ ~KeyUnset =>
                /\ Contains(ColumnList(st.sql), keyCol)
                /\ Len(st.values) = Len(args.row)
                /\ ~Contains(st.sql, <<" RETURNING ">>)
                /\ keyCallbacks = <<>>

C7_Witness ==
    /\ call = "insert"
    /\ args.key = FieldId
    /\ KeyInRow /\ KeyUnset
    /\ SucceededWith(Len(poolState.results.rows) > 0)
    /\ keyCallbacks = <<Num("7")>>
    /\ Resolved

\* C8 (as claimed): batchInsert with no rows, and update / updateMany with an empty
\* payload, issue no statement and return an already resolved promise.
NothingToDo ==
    \/ call = "batchInsert" /\ args.rows = <<>>
    \/ call \in {"update", "updateMany"} /\ args.updated = <<>>

C8_EmptyInputResolves ==
    NothingToDo => /\ Queries = <<>>
                   /\ ret = "promise"
                   /\ Resolved

\* C9: every call of findByKey, find, count, insert, batchInsert, update, updateMany
\* (non-empty input), delete, deleteMany, sum, increment and customQuery submits
\* exactly one statement; while the pool has not answered the promise is pending;
\* once it has, the promise was settled by exactly one resolve/reject call, and an
\* error of the pool is the rejection value, with no further statement issued.
PoolOps == {"customQuery", "findByKey", "find", "count", "insert", "batchInsert", "update",
            "updateMany", "delete", "deleteMany", "sum", "increment"}

C9_OneStatementOneOutcome ==
    (call \in PoolOps /\ ~NothingToDo) =>
        /\ Len(Queries) = 1
        /\ ret = "promise"
        /\ poolState.phase = "waiting" => promise.state = "pending" /\ settleCalls = <<>>
        /\ poolState.phase = "answered" =>
              /\ Len(settleCalls) = 1
              /\ IF poolState.error # NoError
                 THEN RejectedWith(poolState.error)
                 ELSE Resolved

C9_Witness ==
    /\ call = "updateMany"
    /\ poolState.phase = "answered"
    /\ poolState.error = Error("pool", 2)
    /\ RejectedWith(Error("pool", 2))
    /\ Len(Queries) = 1

\* C10 (as claimed): every statement handed to the pool, customQuery's included, is
\* preceded by a call of the debug sink with the value-substituted text of that
\* statement, and what is handed to the pool is the parameterized pair.
C10_DebugBeforeEveryQuery ==
    \A i \in 1..Len(log) :
        log[i].ev = "query" =>
            /\ i > 1
            /\ log[i - 1] = DebugEvent(DebugText(log[i].sql, log[i].values))

(***************************************************************************)
(* Properties of the statement texts.                                      *)
(***************************************************************************)
\* the names a text holds between backticks, in order of appearance
RECURSIVE QuotedFrom(_, _, _)
QuotedFrom(sql, inside, cur) ==
    IF sql = <<>> THEN <<>>
    ELSE IF Head(sql) = BQ
         THEN (IF inside THEN <<cur>> ELSE <<>>) \o QuotedFrom(Tail(sql), ~inside, <<>>)
         ELSE QuotedFrom(Tail(sql), inside, IF inside THEN Append(cur, Head(sql)) ELSE cur)

QuotedNames(sql) == QuotedFrom(sql, FALSE, <<>>)

\* the operations that build a statement from their arguments
Builders == {"findByKey", "find", "findStream", "findStreamSync", "count", "insert",
             "batchInsert", "update", "updateMany", "delete", "deleteMany", "sum",
             "increment"}
Built == call \in Builders /\ ~NothingToDo

\* the names of the compiled filter, as the WHERE clause holds them
FilterNames == QuotedNames(filterToSQL(args.filter, idConversion).query)

\* the names of the columns of a row or payload, converted, in key order
ColumnNames(fields) == [i \in 1..Len(fields) |-> toSQL(fields[i].k)]

\* the identifiers the statement of the current call is to hold, in order, from the
\* names the caller supplied; tableName and indexName are what stands for the
\* table and for the index hint
IdentifiersOf(tableName, indexName) ==
    LET hint == IF indexName = <<>> THEN <<>> ELSE <<indexName>>
    IN CASE call \in {"findByKey", "delete"} -> <<tableName, toSQL(args.keyName)>>
         [] call \in {"find", "findStream", "findStreamSync"} ->
                (IF args.projection.given
                 THEN [i \in 1..Len(args.projection.keys) |-> toSQL(args.projection.keys[i])]
                 ELSE <<>>)
                \o <<tableName>> \o hint \o FilterNames
                \o (IF args.sortBy = <<>> THEN <<>> ELSE <<toSQL(args.sortBy)>>)
         [] call = "count" -> <<<<"count">>, tableName>> \o hint \o FilterNames
         [] call = "insert" ->
                <<tableName>>
                \o ColumnNames(SelectSeq(args.row,
                                         LAMBDA f : ~(f.k = args.key /\ IsUnset(f.v))))
                \o (IF args.key # <<>> /\ KeyUnset THEN <<toSQL(args.key)>> ELSE <<>>)
         [] call = "batchInsert" -> <<tableName>> \o ColumnNames(args.rows[1])
         [] call = "update" ->
                <<tableName>> \o ColumnNames(args.updated) \o <<toSQL(args.keyName)>>
         [] call = "updateMany" -> <<tableName>> \o ColumnNames(args.updated) \o FilterNames
         [] call = "deleteMany" -> <<tableName>> \o FilterNames
         [] call = "sum" -> <<toSQL(args.field), toSQL(args.field), tableName>> \o FilterNames
         [] call = "increment" ->
                <<tableName, toSQL(args.prop), toSQL(args.prop), toSQL(args.keyName)>>

HintOf == IF call \in {"find", "findStream", "findStreamSync", "count"}
          THEN args.extraOptions.useIndex
          ELSE <<>>

RECURSIVE Occurrences(_, _)
Occurrences(text, word) ==
    IF text = <<>> THEN 0
    ELSE (IF Head(text) = word THEN 1 ELSE 0) + Occurrences(Tail(text), word)

\* what follows the first occurrence of word in a text, up to the next stop or the end
ClauseText(text, word, stop) ==
    LET i == CHOOSE i \in 1..Len(text) : text[i] = word /\ \A j \in 1..(i - 1) : text[j] # word
        ends == {j \in (i + 1)..Len(text) : text[j] = stop}
        last == IF ends = {} THEN Len(text)
                ELSE (CHOOSE j \in ends : \A k \in ends : j <= k) - 1
    IN SubSeq(text, i + 1, last)

Digits == {DigitText(d) : d \in 0..9}
DigitValue(c) == CHOOSE d \in 0..9 : DigitText(d) = c

\* a text that is a decimal numeral without sign, point or exponent
IsNumeral(text) == text # <<>> /\ \A i \in 1..Len(text) : text[i] \in Digits

RECURSIVE NumeralValue(_)
NumeralValue(text) ==
    IF text = <<>> THEN 0
    ELSE 10 * NumeralValue(SubSeq(text, 1, Len(text) - 1)) + DigitValue(text[Len(text)])

\* a count that asks for its clause: a number that is not negative
CountWanted(c) == c \notin {NullCount, AbsentCount} /\ ~(c.n < 0)

SelectCalls == {"find", "findStream", "findStreamSync"}

\* C12: in the SELECT of find, findStream and findStreamSync a limit (skip) that is
\* negative, null or absent adds no LIMIT (OFFSET) clause, each decided on its own,
\* and what is written after LIMIT or OFFSET is the numeral of the caller's
\* non-negative integer.
C12_LimitAndOffset ==
    call \in SelectCalls =>
        LET sql == Queries[1].sql IN
        /\ Occurrences(sql, " LIMIT ") = (IF CountWanted(args.limit) THEN 1 ELSE 0)
        /\ Occurrences(sql, " OFFSET ") = (IF CountWanted(args.skip) THEN 1 ELSE 0)
        /\ CountWanted(args.limit) =>
              LET n == ClauseText(sql, " LIMIT ", " OFFSET ")
              IN IsNumeral(n) /\ NumeralValue(n) = args.limit.n
        /\ CountWanted(args.skip) =>
              LET n == ClauseText(sql, " OFFSET ", " LIMIT ")
              IN IsNumeral(n) /\ NumeralValue(n) = args.skip.n

C12_Witness ==
    /\ call = "find"
    /\ args.limit = NullCount
    /\ args.skip = Count(12)
    /\ poolState.phase = "answered"
    /\ ~Contains(Queries[1].sql, <<" LIMIT ">>)
    /\ Contains(Queries[1].sql, <<" OFFSET ", "1", "2">>)
    /\ Queries[1].sql[Len(Queries[1].sql) - 2] = " OFFSET "

\* the operations that take a filter
FilterCalls == SelectCalls \cup {"count", "updateMany", "deleteMany", "sum"}

\* the values a statement binds before those of its filter
OwnValuesOf(updated) == [i \in 1..Len(updated) |-> toSQLCompatibleValue(updated[i].v)]
OwnValues == IF call = "updateMany" THEN OwnValuesOf(args.updated) ELSE <<>>

\* C13: for find, count, updateMany, deleteMany and sum the statement has a WHERE
\* clause, holding the compiled filter's query and followed in the value list by
\* the filter's values, exactly when the compiled query is not empty; with an empty
\* filter there is no WHERE clause and no filter value is bound.
C13_WhereIffFilter ==
    (call \in FilterCalls /\ ~NothingToDo) =>
        LET st == Queries[1]
            cond1 == filterToSQL(args.filter, idConversion)
        IN /\ args.filter = NoFilter => cond1.query = <<>>
           /\ IF cond1.query # <<>>
              THEN /\ Occurrences(st.sql, " WHERE ") = 1
                   /\ Contains(st.sql, <<" WHERE ">> \o cond1.query)
                   /\ st.values = OwnValues \o cond1.values
              ELSE /\ Occurrences(st.sql, " WHERE ") = 0
                   /\ st.values = OwnValues

C13_Witness ==
    /\ call = "updateMany"
    /\ args.filter = NoFilter
    /\ Len(args.updated) = 2
    /\ poolState.phase = "answered"
    /\ ~Contains(Queries[1].sql, <<" WHERE ">>)
    /\ Queries[1].values = <<Str("9"), Num("1")>>

\* the aggregate of the first row the pool answered a sum with
SumAnswer == RowGet(poolState.results.rows[1], toSQL(args.field))

\* C14: whenever the statement of sum has succeeded the promise is resolved with a
\* number, never null, undefined or NaN; it is 0 when the result has no row and
\* when the aggregate is NULL.
C14_SumIsNumber ==
    (call = "sum" /\ SucceededWith(TRUE)) =>
        /\ Resolved
        /\ promise.value.t = "number"
        /\ promise.value \notin {Null, Undefined, NaN}
        /\ poolState.results.rows = <<>> => promise.value = Num("0")
        /\ (poolState.results.rows # <<>> /\ SumAnswer = Null) => promise.value = Num("0")

C14_Witness ==
    /\ call = "sum"
    /\ args.field = FieldUN
    /\ SucceededWith(poolState.results.rows # <<>>)
    /\ SumAnswer = Null
    /\ Resolved
    /\ promise.value = Num("0")

\* the fragments of a text that stand outside backticks
RECURSIVE OutsideQuotes(_, _)
OutsideQuotes(sql, inside) ==
    IF sql = <<>> THEN <<>>
    ELSE IF Head(sql) = BQ THEN OutsideQuotes(Tail(sql), ~inside)
    ELSE (IF inside THEN <<>> ELSE <<Head(sql)>>) \o OutsideQuotes(Tail(sql), inside)

\* the fixed words of the statements and of the compiled filters
SqlWords == {"SELECT ", "*", ", ", " FROM ", " FORCE INDEX (", ")", " WHERE ", " ORDER BY ",
             " ", "DESC", "ASC", " LIMIT ", " OFFSET ", "SELECT COUNT(", ") AS ",
             "SELECT * FROM ", "INSERT INTO ", "(", ",", ") VALUES (", " RETURNING ",
             ") VALUES ", "UPDATE ", " SET ", " = ", "DELETE FROM ", "SELECT SUM(", " + ",
             " AND ", " IS NULL", "?"}

\* outside the identifiers a text holds fixed words and placeholders only, but for
\* the numerals of LIMIT and OFFSET
FixedText(sql) ==
    LET out == OutsideQuotes(sql, FALSE)
    IN \A i \in 1..Len(out) :
          \/ out[i] \in SqlWords
          \/ /\ out[i] \in Digits
             /\ \E j \in 1..(i - 1) : out[j] \in {" LIMIT ", " OFFSET "}

\* the placeholders of the part of a text before its WHERE
PlaceholdersBeforeWhere(sql) ==
    Placeholders(SubSeq(sql, 1, (CHOOSE i \in 1..Len(sql) : sql[i] = " WHERE ") - 1))

\* the values the caller supplied to the current call, in the order of the
\* placeholders they are bound to
SuppliedValues ==
    LET cond1 == filterToSQL(args.filter, idConversion)
        row == SelectSeq(args.row, LAMBDA f : ~(f.k = args.key /\ IsUnset(f.v)))
    IN CASE call \in {"findByKey", "delete"} -> <<args.keyValue>>
         [] call \in SelectCalls \cup {"count", "deleteMany", "sum"} -> cond1.values
         [] call = "insert" -> [i \in 1..Len(row) |-> toSQLCompatibleValue(row[i].v)]
         [] call = "batchInsert" ->
                <<List([r \in 1..Len(args.rows) |->
                          List([i \in 1..Len(args.rows[1]) |->
                                  toSQLCompatibleValue(RowGet(args.rows[r],
                                                              args.rows[1][i].k))])])>>
         [] call = "update" -> OwnValuesOf(args.updated) \o <<args.keyValue>>
         [] call = "updateMany" -> OwnValuesOf(args.updated) \o cond1.values
         [] call = "increment" -> <<args.inc, args.keyValue>>

\* outside the identifiers a text holds fixed words and placeholders only
FixedTextOnly(sql) ==
    LET out == OutsideQuotes(sql, FALSE)
    IN \A i \in 1..Len(out) : out[i] \in SqlWords

\* C15 (as claimed): for every statement built, the SELECT included, no value the
\* caller supplied is concatenated into the text; the placeholders are as many as
\* the values and the i-th placeholder is bound to the i-th value.
C15_NoValueInText ==
    Built =>
        LET st == Queries[1] IN
        /\ FixedTextOnly(st.sql)
        /\ Placeholders(st.sql) = Len(st.values)
        /\ st.values = SuppliedValues

\* C15 (amended): for every statement built no value the caller supplied stands in
\* the text, but for the limit and skip counts of the SELECT, written as numerals
\* after LIMIT and OFFSET: outside its identifiers the text is made of fixed words
\* and placeholders; the placeholders are as many as the values, and the value list
\* is the caller's values in placeholder order (for update and updateMany the SET
\* values in payload key order, then the key value or the filter's values).
C15_ValuesOnlyInValueList ==
    Built =>
        LET st == Queries[1] IN
        /\ FixedText(st.sql)
        /\ Placeholders(st.sql) = Len(st.values)
        /\ st.values = SuppliedValues
        /\ (call = "update" \/ (call = "updateMany" /\ args.filter # NoFilter)) =>
              PlaceholdersBeforeWhere(st.sql) = Len(args.updated)
        /\ call = "increment" => PlaceholdersBeforeWhere(st.sql) = 1

C15_Witness ==
    /\ call = "updateMany"
    /\ args.filter = EqFilter(FieldUN, Str("x"))
    /\ poolState.phase = "answered"
    /\ Placeholders(Queries[1].sql) = 3
    /\ PlaceholdersBeforeWhere(Queries[1].sql) = 2
    /\ Queries[1].values = <<Str("9"), Num("1"), Str("x")>>

(***************************************************************************)
(* The outcome of the stream operations.                                   *)
(***************************************************************************)
\* what the first resolve / reject call makes of the promise
FirstSettle ==
    [state |-> IF settleCalls[1].kind = "resolve" THEN "resolved" ELSE "rejected",
     value |-> settleCalls[1].value]

\* C16: in findStream and findStreamSync the promise is resolved only if the source
\* has emitted "end" and every handler invocation started has succeeded; once an
\* invocation has failed the promise is never resolved, whatever arrives later; and
\* the outcome is that of the first resolve / reject call, later calls changing
\* nothing.
C16_SuccessOnlyAfterCleanEnd ==
    call \in {"findStream", "findStreamSync"} =>
        /\ Resolved =>
              /\ stream.ended
              /\ \A k \in 1..Len(invocations) : invocations[k].status = "ok"
        /\ Failed # {} => ~Resolved
        /\ IF settleCalls = <<>> THEN promise.state = "pending" ELSE promise = FirstSettle

C16_Witness ==
    /\ call = "findStream"
    /\ Failed = {2}
    /\ stream.ended
    /\ waiters = <<>> /\ microtasks = <<>>
    /\ Len(settleCalls) = 2
    /\ promise = FirstSettle
    /\ RejectedWith(HandlerError(2))

====
